---- MODULE Spec2Model ----
(***************************************************************************)
(* The shared shopping list of App.tsx: one client (its React state and   *)
(* handlers), the Firestore collections it subscribes to, and the writes  *)
(* it has issued that the store has not yet acknowledged.                 *)
(***************************************************************************)
EXTENDS Integers, Sequences, FiniteSets, TLC

\* ---------------------------------------------------------------- bounds
MaxIds == 3          \* document ids there are
MaxEditItems == 1    \* items in the store when only edits are explored
MaxPending == 1      \* writes in flight when the user starts another one
MaxClock == 3        \* the last reading of the endpoint's clock

\* ------------------------------------------------------------- constants
Ids == 1..MaxIds
NoId == 0
NoError == "null"
Collections == {"todos", "ema-luka"}
\* the ten rooms, written in ASCII
ROOMS ==
  {"Kuhinja", "Dnevna soba", "Master spavaca soba", "Strahinjina soba",
   "Radna soba", "Kupatilo 1", "Kupatilo 2", "Hodnik", "Terasa", "Ostava"}
Filters == {"all", "active", "completed"}

\* ------------------------------------------------- records and sequences
EmptyFn == [k \in {} |-> k]

Opt(cond, k, v) == IF cond THEN k :> v ELSE EmptyFn

Without(f, ks) == [k \in DOMAIN f \ ks |-> f[k]]

Range(s) == {s[i] : i \in DOMAIN s}

IdsOf(list) == {list[i].id : i \in DOMAIN list}

\* Array.prototype.findIndex, 0-based, -1 when no item has the id
FindIndex(list, id) ==
  IF id \in IdsOf(list)
  THEN (CHOOSE i \in DOMAIN list :
          list[i].id = id /\ \A j \in DOMAIN list : list[j].id = id => i <= j) - 1
  ELSE -1

\* list.splice(idx, 1) on a copy: the list without the element at 0-based idx
SpliceOut(list, idx) ==
  [i \in 1..(Len(list) - 1) |-> IF i <= idx THEN list[i] ELSE list[i + 1]]

\* list.splice(idx, 0, x): x inserted at 0-based idx (at the end when idx >= length)
SpliceIn(list, idx, x) ==
  LET at == IF idx > Len(list) THEN Len(list) ELSE idx
  IN [i \in 1..(Len(list) + 1) |->
        IF i <= at THEN list[i] ELSE IF i = at + 1 THEN x ELSE list[i - 1]]

\* ------------------------------------------------------- form conversions
\* String.prototype.trim on the strings the form can hold
Trim(s) ==
  CASE s = " " -> ""
    [] s = " Dyson " -> "Dyson"
    [] OTHER -> s

Num(x) == [nan |-> FALSE, num |-> x]
NaN == [nan |-> TRUE, num |-> 0]

\* Number.parseFloat: the longest numeric prefix, NaN when there is none
ParseFloat(s) ==
  CASE s = "299" -> Num(299)
    [] s = "12abc" -> Num(12)
    [] s = "12" -> Num(12)
    [] OTHER -> NaN

\* String(number)
NumToString(x) ==
  CASE x = 299 -> "299"
    [] x = 12 -> "12"
    [] OTHER -> "0"

\* new URL(u) succeeds
isValidUrl(u) == u \in {"https://img", "https://shop"}

\* --------------------------------------------------------- remote store
\* A collection is a function from the ids of its documents to their fields.
\* A document is a function from the names of the fields it has to values.
Val(x) == [v |-> x]
DeleteField == [deleteField |-> TRUE]

\* updateDoc's merge of one payload into one document
ApplyFields(d, payload) ==
  LET dels == {k \in DOMAIN payload : payload[k] = DeleteField}
      sets == DOMAIN payload \ dels
  IN [k \in (DOMAIN d \ dels) \cup sets |-> IF k \in sets THEN payload[k].v ELSE d[k]]

\* whether the store accepts write w on collection contents coll
Accepts(coll, w) ==
  CASE w.kind = "create" -> TRUE
    [] w.kind = "update" -> w.id \in DOMAIN coll
    [] w.kind = "delete" -> TRUE
    [] w.kind = "batch" -> \A i \in DOMAIN w.updates : w.updates[i].id \in DOMAIN coll

\* the contents of the collection after write w, which the store accepted
ApplyWrite(coll, w) ==
  CASE w.kind = "create" -> (w.id :> w.data) @@ coll
    [] w.kind = "update" ->
         [i \in DOMAIN coll |-> IF i = w.id THEN ApplyFields(coll[i], w.payload) ELSE coll[i]]
    [] w.kind = "delete" -> Without(coll, {w.id})
    [] w.kind = "batch" ->
         [i \in DOMAIN coll |->
            IF \E u \in DOMAIN w.updates : w.updates[u].id = i
            THEN ApplyFields(coll[i],
                   w.updates[CHOOSE u \in DOMAIN w.updates : w.updates[u].id = i].payload)
            ELSE coll[i]]

\* query(collection, orderBy('sort', 'asc')): the ids of the documents that have
\* a sort field, by ascending sort, equal sorts by ascending document id
RECURSIVE OrderBySort(_, _)
OrderBySort(coll, ids) ==
  IF ids = {} THEN <<>>
  ELSE LET m == CHOOSE i \in ids : \A j \in ids :
                  \/ coll[i].sort < coll[j].sort
                  \/ coll[i].sort = coll[j].sort /\ i <= j
       IN <<m>> \o OrderBySort(coll, ids \ {m})

Query(coll) == OrderBySort(coll, {i \in DOMAIN coll : "sort" \in DOMAIN coll[i]})

\* the snapshot callback's mapping of one document to a Todo
ToTodo(id, data) ==
  [id |-> id,
   name |-> IF "name" \in DOMAIN data THEN data.name
            ELSE IF "title" \in DOMAIN data THEN data.title ELSE "",
   room |-> IF "room" \in DOMAIN data THEN data.room ELSE "",
   completed |-> IF "completed" \in DOMAIN data THEN data.completed ELSE FALSE]
  @@ Opt("model" \in DOMAIN data, "model", data.model)
  @@ Opt("price" \in DOMAIN data, "price", data.price)
  @@ Opt("imgUrl" \in DOMAIN data, "imgUrl", data.imgUrl)
  @@ Opt("link" \in DOMAIN data, "link", data.link)

\* snap.docs.map(...): the Todo list a snapshot of the collection yields
SnapItems(coll) ==
  LET order == Query(coll)
  IN [i \in DOMAIN order |-> ToTodo(order[i], coll[order[i]])]

\* ------------------------------------------------------------------ state
VARIABLES
  remote,              \* the store: collection name -> collection contents
  used,                \* the document ids addDoc has generated so far
  pending,             \* writes issued and not yet acknowledged, oldest first
  snapshotDue,         \* the subscription has a snapshot to deliver
  listening,           \* the subscription's stream is alive
  todos,               \* the Local View
  selectedCollection,
  name, room, model, price, imgUrl, link,    \* the form's inputs
  error, modalOpen, editId,
  filter, roomFilter,
  draggingId,
  localTodos,          \* the local-only version: its list
  stored,              \* localStorage: key -> text
  mounted,             \* the local-only version is running
  event,               \* the request the endpoint's handler was last called with
  response,            \* what the handler returned for it
  now                  \* the endpoint's clock

form == <<name, room, model, price, imgUrl, link>>
modal == <<error, modalOpen, editId>>
store == <<remote, used, pending, snapshotDue, listening>>
app == <<store, todos, selectedCollection, form, modal, filter, roomFilter, draggingId>>
local == <<localTodos, stored, mounted>>
endpoint == <<event, response, now>>
\* the repository's other programs, each running on its own
others == <<local, endpoint>>
vars == <<app, others>>

\* JavaScript's null (what localStorage.getItem gives for a key that is not
\* there, and the body of a request without one), and an endpoint no request
\* has reached yet
Null == [kind |-> "null"]
NoEvent == [httpMethod |-> "", body |-> Null]
NoResponse == [statusCode |-> 0]

LocalIdle == localTodos = <<>> /\ stored = EmptyFn /\ mounted = FALSE

EndpointIdle == event = NoEvent /\ response = NoResponse /\ now = 0

OthersIdle == LocalIdle /\ EndpointIdle

\* what the user may type into the form before submitting it
FormOf(n, r, m, p, i, l) ==
  [name |-> n, room |-> r, model |-> m, price |-> p, imgUrl |-> i, link |-> l]

FormInputs ==
  {FormOf("Dyson", "Kuhinja", "", "", "", ""),
   FormOf(" Dyson ", "Kuhinja", "V15", "299", "https://img", "https://shop"),
   FormOf("Dyson", "Kuhinja", "", "12", "", ""),
   FormOf(" ", "Kuhinja", "", "", "", ""),
   FormOf("Dyson", "", "", "", "", ""),
   FormOf("Dyson", "Kuhinja", "", "abc", "", ""),
   FormOf("Dyson", "Kuhinja", "", "12abc", "", ""),
   FormOf("Dyson", "Kuhinja", "", "", "bad", ""),
   FormOf("Dyson", "Kuhinja", "", "", "", "bad")}

\* a store the program has filled before: k items added one after the other to
\* 'todos', the second one ticked since
SeedDoc(i) ==
  [name |-> "Dyson", room |-> "Kuhinja", completed |-> (i = 2),
   createdAt |-> "serverTimestamp", sort |-> i - 1]

\* the shared list's page as it opens on a store of k items
AppInitWith(k) ==
  /\ remote = [c \in Collections |-> IF c = "todos" THEN [i \in 1..k |-> SeedDoc(i)] ELSE EmptyFn]
  /\ used = 1..k
  /\ pending = <<>>
  /\ snapshotDue = TRUE
  /\ listening = TRUE
  /\ todos = <<>>
  /\ selectedCollection = "todos"
  /\ name = "" /\ room = "" /\ model = "" /\ price = "" /\ imgUrl = "" /\ link = ""
  /\ error = NoError /\ modalOpen = FALSE /\ editId = NoId
  /\ filter = "all"
  /\ roomFilter = "all"
  /\ draggingId = NoId

InitWith(k) ==
  /\ AppInitWith(k)
  /\ OthersIdle

Init == \E k \in 0..MaxIds : InitWith(k)

InitEdit == \E k \in 0..MaxEditItems : InitWith(k)

\* a store that has room for one more item at most
InitFull == \E k \in (MaxIds - 1)..MaxIds : InitWith(k)

\* a store whose items have been removed again but for the first, with one more
\* item to come
InitOperations ==
  /\ remote = [c \in Collections |-> IF c = "todos" THEN (1 :> SeedDoc(1)) ELSE EmptyFn]
  /\ used = 1..(MaxIds - 1)
  /\ pending = <<>>
  /\ snapshotDue = TRUE
  /\ listening = TRUE
  /\ todos = <<>>
  /\ selectedCollection = "todos"
  /\ name = "" /\ room = "" /\ model = "" /\ price = "" /\ imgUrl = "" /\ link = ""
  /\ error = NoError /\ modalOpen = FALSE /\ editId = NoId
  /\ filter = "all"
  /\ roomFilter = "all"
  /\ OthersIdle
  /\ draggingId = NoId

\* a document another writer of the shared collection has left there: its room
\* is none of ROOMS (the card falls back to the colour of no room for it)
LegacyDoc ==
  [name |-> "Dyson", room |-> "Garaza", completed |-> FALSE,
   createdAt |-> "serverTimestamp", sort |-> 0]

\* a store whose items are of two rooms, one ticked, some with a price
ViewDoc(i) ==
  [name |-> "Dyson", room |-> (IF i % 2 = 1 THEN "Kuhinja" ELSE "Hodnik"),
   completed |-> (i = 2), createdAt |-> "serverTimestamp", sort |-> i - 1]
  @@ Opt(i # 3, "price", IF i = 1 THEN 299 ELSE 12)

InitView ==
  /\ remote = [c \in Collections |->
                 IF c = "todos" THEN [i \in 1..(MaxEditItems + 2) |-> ViewDoc(i)] ELSE EmptyFn]
  /\ used = 1..(MaxEditItems + 2)
  /\ pending = <<>>
  /\ snapshotDue = TRUE
  /\ listening = TRUE
  /\ todos = <<>>
  /\ selectedCollection = "todos"
  /\ name = "" /\ room = "" /\ model = "" /\ price = "" /\ imgUrl = "" /\ link = ""
  /\ error = NoError /\ modalOpen = FALSE /\ editId = NoId
  /\ filter = "all"
  /\ roomFilter = "all"
  /\ OthersIdle
  /\ draggingId = NoId

InitLegacy ==
  /\ remote = [c \in Collections |-> IF c = "todos" THEN (1 :> LegacyDoc) ELSE EmptyFn]
  /\ used = {1}
  /\ pending = <<>>
  /\ snapshotDue = TRUE
  /\ listening = TRUE
  /\ todos = <<>>
  /\ selectedCollection = "todos"
  /\ name = "" /\ room = "" /\ model = "" /\ price = "" /\ imgUrl = "" /\ link = ""
  /\ error = NoError /\ modalOpen = FALSE /\ editId = NoId
  /\ filter = "all"
  /\ roomFilter = "all"
  /\ OthersIdle
  /\ draggingId = NoId

\* ------------------------------------------------------------ subscription
\* a reconciliation that keeps the local order while the items are the same
ApplySnapshotKeepsLocalOrder(prev, coll) ==
  IF IdsOf(prev) = IdsOf(SnapItems(coll)) THEN prev ELSE SnapItems(coll)

\* setTodos(items): the Local View after a snapshot of coll, prev before it
ApplySnapshot(prev, coll) == SnapItems(coll)

\* the onSnapshot callback
OnSnapshot ==
  /\ listening
  /\ snapshotDue
  /\ todos' = ApplySnapshot(todos, remote[selectedCollection])
  /\ snapshotDue' = FALSE
  /\ UNCHANGED <<remote, used, pending, listening, selectedCollection, others, form, modal,
                 filter, roomFilter, draggingId>>

\* the stream has one more snapshot of the collection as it is to deliver, as a
\* stream that keeps delivering snapshots has time and again
StreamRedelivers ==
  /\ listening
  /\ ~snapshotDue
  /\ snapshotDue' = TRUE
  /\ UNCHANGED <<remote, used, pending, listening, todos, selectedCollection, others, form,
                 modal, filter, roomFilter, draggingId>>

\* the stream reports an error: onSnapshot was given no error callback, so no
\* code of the client runs; the listener is over and delivers nothing more
StreamError ==
  /\ listening
  /\ listening' = FALSE
  /\ UNCHANGED <<remote, used, pending, snapshotDue, todos, selectedCollection, others, form,
                 modal, filter, roomFilter, draggingId>>

\* the collection selector: the effect unsubscribes and subscribes anew
SelectCollection(c) ==
  /\ c # selectedCollection
  /\ selectedCollection' = c
  /\ snapshotDue' = TRUE
  /\ listening' = TRUE
  /\ UNCHANGED <<remote, used, pending, todos, form, modal, filter, roomFilter, draggingId,
                 others>>

\* a rendered list that the room filter does not narrow
FilteredByStatusOnly ==
  CASE filter = "active" -> SelectSeq(todos, LAMBDA t : ~t.completed)
    [] filter = "completed" -> SelectSeq(todos, LAMBDA t : t.completed)
    [] OTHER -> todos

\* the list the page renders: filtered by status, then by room
Filtered ==
  LET byStatus == CASE filter = "active" -> SelectSeq(todos, LAMBDA t : ~t.completed)
                    [] filter = "completed" -> SelectSeq(todos, LAMBDA t : t.completed)
                    [] OTHER -> todos
  IN IF roomFilter # "all" THEN SelectSeq(byStatus, LAMBDA t : t.room = roomFilter)
     ELSE byStatus

\* filtered.length
total == Len(Filtered)

\* list.reduce((sum, t) => sum + (typeof t.price === 'number' ? t.price : 0), 0)
RECURSIVE SumPrices(_)
SumPrices(list) ==
  IF list = <<>> THEN 0
  ELSE (IF "price" \in DOMAIN Head(list) THEN Head(list).price ELSE 0) + SumPrices(Tail(list))

\* a price sum taken over the whole Local View
totalValueOfAllItems == SumPrices(todos)

\* the price sum the summary shows
totalValue == SumPrices(Filtered)

SetFilter(f) ==
  /\ f # filter
  /\ filter' = f
  /\ UNCHANGED <<store, todos, selectedCollection, others, form, modal, roomFilter, draggingId>>

\* the rooms the room filter's select offers: 'all' and the rooms
RoomFilters == {"all"} \cup ROOMS

SetRoomFilter(r) ==
  /\ r # roomFilter
  /\ roomFilter' = r
  /\ UNCHANGED <<store, todos, selectedCollection, others, form, modal, filter, draggingId>>

\* ------------------------------------------------------------------- form
openAddModal ==
  /\ editId' = NoId
  /\ name' = "" /\ room' = "" /\ model' = "" /\ price' = "" /\ imgUrl' = "" /\ link' = ""
  /\ error' = NoError
  /\ modalOpen' = TRUE
  /\ UNCHANGED <<store, todos, selectedCollection, others, filter, roomFilter, draggingId>>

openEditModal(t) ==
  /\ editId' = t.id
  /\ name' = t.name
  /\ room' = t.room
  /\ model' = IF "model" \in DOMAIN t THEN t.model ELSE ""
  /\ price' = IF "price" \in DOMAIN t THEN NumToString(t.price) ELSE ""
  /\ imgUrl' = IF "imgUrl" \in DOMAIN t THEN t.imgUrl ELSE ""
  /\ link' = IF "link" \in DOMAIN t THEN t.link ELSE ""
  /\ error' = NoError
  /\ modalOpen' = TRUE
  /\ UNCHANGED <<store, todos, selectedCollection, others, filter, roomFilter, draggingId>>

closeModal ==
  /\ modalOpen
  /\ modalOpen' = FALSE
  /\ UNCHANGED <<store, todos, selectedCollection, others, form, error, editId, filter, roomFilter, draggingId>>

\* the inputs' onChange handlers, until the form reads f
TypeForm(f) ==
  /\ modalOpen
  /\ name' = f.name /\ room' = f.room /\ model' = f.model
  /\ price' = f.price /\ imgUrl' = f.imgUrl /\ link' = f.link
  /\ UNCHANGED <<store, todos, selectedCollection, others, modal, filter, roomFilter, draggingId>>

\* an edit that writes the emptied inputs as they are: '' and 0
EditPayloadWritesBlanks(n, rm, m, priceText, p, img, lnk) ==
  [name |-> Val(n),
   room |-> Val(rm),
   model |-> Val(m),
   price |-> Val(p.num),
   imgUrl |-> Val(img),
   link |-> Val(lnk)]

\* the edit branch's payloadUpdate
EditPayload(n, rm, m, priceText, p, img, lnk) ==
  [name |-> Val(n),
   room |-> Val(rm),
   model |-> IF m # "" THEN Val(m) ELSE DeleteField,
   price |-> IF priceText # "" THEN Val(p.num) ELSE DeleteField,
   imgUrl |-> IF img # "" THEN Val(img) ELSE DeleteField,
   link |-> IF lnk # "" THEN Val(lnk) ELSE DeleteField]

\* positions counted from 1
NewSortOneBased(list) == Len(list) + 1

\* the position a new item is created with
NewSort(list) == Len(list)

\* the add branch's document: { ...payload, sort: todos.length }
AddPayload(n, rm, m, p, img, lnk, list) ==
  [name |-> n, room |-> rm, completed |-> FALSE, createdAt |-> "serverTimestamp",
   sort |-> NewSort(list)]
  @@ Opt(m # "", "model", m)
  @@ Opt(~p.nan, "price", p.num)
  @@ Opt(img # "", "imgUrl", img)
  @@ Opt(lnk # "", "link", lnk)

\* the message of the validation that rejects the form, NoError when none does
Validate(n, rm, priceText, p, img, lnk) ==
  IF n = "" THEN "Naziv je obavezan."
  ELSE IF rm = "" THEN "Izaberite prostoriju."
  ELSE IF priceText # "" /\ p.nan THEN "Cena mora biti broj (ako je navedena)."
  ELSE IF (img # "" /\ ~isValidUrl(img)) \/ (lnk # "" /\ ~isValidUrl(lnk))
       THEN "Unesite ispravne URL-ove za sliku i link (ako su navedeni)."
  ELSE NoError

\* handleSubmit up to its await: validation, then one updateDoc or addDoc
handleSubmit ==
  /\ modalOpen
  /\ LET n == Trim(name)
         rm == Trim(room)
         m == Trim(model)
         priceText == Trim(price)
         p == IF priceText # "" THEN ParseFloat(priceText) ELSE NaN
         img == Trim(imgUrl)
         lnk == Trim(link)
         msg == Validate(n, rm, priceText, p, img, lnk)
     IN IF msg # NoError
        THEN /\ error' = msg
             /\ UNCHANGED <<store, modalOpen, editId>>
        ELSE /\ error' = NoError
             /\ Len(pending) < MaxPending
             /\ IF editId # NoId
                THEN /\ pending' = Append(pending,
                          [kind |-> "update", coll |-> selectedCollection, id |-> editId,
                           payload |-> EditPayload(n, rm, m, priceText, p, img, lnk),
                           from |-> "submit"])
                     /\ UNCHANGED used
                ELSE \E id \in Ids \ used :
                     /\ pending' = Append(pending,
                          [kind |-> "create", coll |-> selectedCollection, id |-> id,
                           data |-> AddPayload(n, rm, m, p, img, lnk, todos),
                           from |-> "submit"])
                     /\ used' = used \cup {id}
             /\ UNCHANGED <<remote, snapshotDue, listening, modalOpen, editId>>
  /\ UNCHANGED <<todos, selectedCollection, others, form, filter, roomFilter, draggingId>>

\* --------------------------------------------------------- toggle, remove
\* a toggle that writes the item as the Local View shows it, flag flipped
TogglePayloadWholeItem(t) ==
  [completed |-> Val(~t.completed), name |-> Val(t.name), room |-> Val(t.room)]

\* the payload toggle sends for item t
TogglePayload(t) == [completed |-> Val(~t.completed)]

\* a toggle that also flips the flag in the Local View
toggleOptimistic(id) ==
  /\ Len(pending) < MaxPending
  /\ id \in IdsOf(todos)
  /\ pending' = Append(pending,
        [kind |-> "update", coll |-> selectedCollection, id |-> id,
         payload |-> TogglePayload(todos[FindIndex(todos, id) + 1]),
         from |-> "toggle"])
  /\ todos' = [i \in DOMAIN todos |->
                IF todos[i].id = id THEN [todos[i] EXCEPT !.completed = ~@] ELSE todos[i]]
  /\ UNCHANGED <<remote, used, snapshotDue, listening, selectedCollection, others, form, modal,
                 filter, roomFilter, draggingId>>

\* a toggle that ticks an item the Local View does not hold
toggleTicksUnknown(id) ==
  /\ Len(pending) < MaxPending
  /\ pending' = Append(pending,
        [kind |-> "update", coll |-> selectedCollection, id |-> id,
         payload |-> IF id \in IdsOf(todos)
                     THEN TogglePayload(todos[FindIndex(todos, id) + 1])
                     ELSE [completed |-> Val(TRUE)],
         from |-> "toggle"])
  /\ UNCHANGED <<remote, used, snapshotDue, listening, todos, selectedCollection, others, form, modal,
                 filter, roomFilter, draggingId>>

toggle(id) ==
  /\ Len(pending) < MaxPending
  /\ IF id \in IdsOf(todos)
     THEN pending' = Append(pending,
            [kind |-> "update", coll |-> selectedCollection, id |-> id,
             payload |-> TogglePayload(todos[FindIndex(todos, id) + 1]),
             from |-> "toggle"])
     ELSE UNCHANGED pending
  /\ UNCHANGED <<remote, used, snapshotDue, listening, todos, selectedCollection, others, form, modal,
                 filter, roomFilter, draggingId>>

\* a remove that also takes the item out of the Local View
removeOptimistic(id) ==
  /\ Len(pending) < MaxPending
  /\ pending' = Append(pending,
        [kind |-> "delete", coll |-> selectedCollection, id |-> id, from |-> "remove"])
  /\ todos' = SelectSeq(todos, LAMBDA t : t.id # id)
  /\ UNCHANGED <<remote, used, snapshotDue, listening, selectedCollection, others, form, modal,
                 filter, roomFilter, draggingId>>

remove(id) ==
  /\ Len(pending) < MaxPending
  /\ pending' = Append(pending,
        [kind |-> "delete", coll |-> selectedCollection, id |-> id, from |-> "remove"])
  /\ UNCHANGED <<remote, used, snapshotDue, listening, todos, selectedCollection, others, form, modal,
                 filter, roomFilter, draggingId>>

\* ------------------------------------------------------------ drag and drop
onDragStartCard(id) ==
  /\ draggingId' = id
  /\ UNCHANGED <<store, todos, selectedCollection, others, form, modal, filter, roomFilter>>

\* a move that exchanges the dragged item and the target
MoveItemSwaps(list, srcIdx, dstIdx) ==
  [i \in DOMAIN list |->
     IF i = srcIdx + 1 THEN list[dstIdx + 1]
     ELSE IF i = dstIdx + 1 THEN list[srcIdx + 1] ELSE list[i]]

\* a move that inserts before the target: one index less when moving down
MoveItemBeforeTarget(list, srcIdx, dstIdx) ==
  SpliceIn(SpliceOut(list, srcIdx), IF srcIdx < dstIdx THEN dstIdx - 1 ELSE dstIdx,
           list[srcIdx + 1])

\* newList: the copy of list with the item at srcIdx moved to dstIdx
MoveItem(list, srcIdx, dstIdx) ==
  SpliceIn(SpliceOut(list, srcIdx), dstIdx, list[srcIdx + 1])

\* positions counted from 1
OrderUpdatesOneBased(newList) ==
  [i \in DOMAIN newList |-> [id |-> newList[i].id, payload |-> [sort |-> Val(i)]]]

\* the batch's updates: newList.forEach((t, idx) => batch.update(doc, { sort: idx }))
OrderUpdates(newList) ==
  [i \in DOMAIN newList |-> [id |-> newList[i].id, payload |-> [sort |-> Val(i - 1)]]]

\* a reorder sent as one updateDoc per item
OrderWritesPerItem(coll, newList) ==
  [i \in DOMAIN newList |->
     [kind |-> "update", coll |-> coll, id |-> newList[i].id,
      payload |-> [sort |-> Val(i - 1)], from |-> "order"]]

\* the writes a drop issues: one writeBatch, committed once
OrderWrites(coll, newList) ==
  <<[kind |-> "batch", coll |-> coll, updates |-> OrderUpdates(newList), from |-> "order"]>>

\* guards that let a drop of an item onto itself through
DropIgnoredButOntoItself(list, dragging, targetId) ==
  \/ dragging = NoId
  \/ FindIndex(list, dragging) < 0
  \/ FindIndex(list, targetId) < 0

\* the guards under which a drop returns at once
DropIgnored(list, dragging, targetId) ==
  \/ dragging = NoId
  \/ dragging = targetId
  \/ FindIndex(list, dragging) < 0
  \/ FindIndex(list, targetId) < 0

\* the list a drop of the dragged item onto targetId leaves in the Local View
DropResult(list, dragging, targetId) ==
  IF DropIgnored(list, dragging, targetId) THEN list
  ELSE MoveItem(list, FindIndex(list, dragging), FindIndex(list, targetId))

\* a drop whose batch leaves out the items that keep their index
onDropCardChangedOnly(targetId) ==
  IF DropIgnored(todos, draggingId, targetId)
  THEN UNCHANGED vars
  ELSE /\ Len(pending) < MaxPending
       /\ todos' = DropResult(todos, draggingId, targetId)
       /\ pending' = Append(pending,
             [kind |-> "batch", coll |-> selectedCollection, from |-> "order",
              updates |-> SelectSeq(OrderUpdates(todos'),
                            LAMBDA u : FindIndex(todos, u.id) # u.payload.sort.v)])
       /\ draggingId' = NoId
       /\ UNCHANGED <<remote, used, snapshotDue, listening, selectedCollection, others, form, modal, filter, roomFilter>>

\* a drop that reorders and leaves the dragging id set
onDropCardKeepsDragging(targetId) ==
  IF DropIgnored(todos, draggingId, targetId)
  THEN UNCHANGED vars
  ELSE /\ Len(pending) < MaxPending
       /\ todos' = DropResult(todos, draggingId, targetId)
       /\ pending' = pending \o OrderWrites(selectedCollection, todos')
       /\ UNCHANGED <<remote, used, snapshotDue, listening, selectedCollection, others, form, modal,
                      filter, roomFilter, draggingId>>

\* a drop that saves the order of the list as it is when the dragged item or
\* the target is not in it
onDropCardSavesOrderAnyway(targetId) ==
  IF draggingId = NoId \/ draggingId = targetId
  THEN UNCHANGED vars
  ELSE /\ Len(pending) < MaxPending
       /\ todos' = DropResult(todos, draggingId, targetId)
       /\ pending' = pending \o OrderWrites(selectedCollection, todos')
       /\ draggingId' = NoId
       /\ UNCHANGED <<remote, used, snapshotDue, listening, selectedCollection, others, form, modal,
                      filter, roomFilter>>

onDropCard(targetId) ==
  IF DropIgnored(todos, draggingId, targetId)
  THEN UNCHANGED vars
  ELSE /\ Len(pending) < MaxPending
       /\ todos' = DropResult(todos, draggingId, targetId)
       /\ pending' = pending \o OrderWrites(selectedCollection, todos')
       /\ draggingId' = NoId
       /\ UNCHANGED <<remote, used, snapshotDue, listening, selectedCollection, others, form, modal, filter, roomFilter>>

onDragEndCard ==
  /\ draggingId' = NoId
  /\ UNCHANGED <<store, todos, selectedCollection, others, form, modal, filter, roomFilter>>

\* ------------------------------------------------------ write completion
\* the store applies the oldest pending write and acknowledges it; a submit's
\* await resumes with closeModal()
WriteAcknowledged ==
  /\ pending # <<>>
  /\ LET w == Head(pending)
     IN /\ Accepts(remote[w.coll], w)
        /\ remote' = [remote EXCEPT ![w.coll] = ApplyWrite(@, w)]
        /\ snapshotDue' = (snapshotDue \/
              (w.coll = selectedCollection /\ remote'[w.coll] # remote[w.coll]))
        /\ modalOpen' = IF w.from = "submit" THEN FALSE ELSE modalOpen
  /\ pending' = Tail(pending)
  /\ UNCHANGED <<used, listening, todos, selectedCollection, others, form, error, editId, filter, roomFilter,
                 draggingId>>

\* a failure handler that issues the failed request once more
WriteRejectedRetries ==
  /\ pending # <<>>
  /\ pending' = Append(Tail(pending), [Head(pending) EXCEPT !.from = "retry"])
  /\ UNCHANGED <<remote, used, snapshotDue, listening, todos, selectedCollection, others, form,
                 modal, filter, roomFilter, draggingId>>

\* a failure handler that puts the Local View back to what the store holds
WriteRejectedRollsBack ==
  /\ pending # <<>>
  /\ pending' = Tail(pending)
  /\ todos' = SnapItems(remote[selectedCollection])
  /\ UNCHANGED <<remote, used, snapshotDue, listening, selectedCollection, others, form, modal,
                 filter, roomFilter, draggingId>>

\* a failure handler that closes the form of a failed submit
WriteRejectedClosesForm ==
  /\ pending # <<>>
  /\ pending' = Tail(pending)
  /\ modalOpen' = IF Head(pending).from = "submit" THEN FALSE ELSE modalOpen
  /\ UNCHANGED <<remote, used, snapshotDue, listening, todos, selectedCollection, others, form,
                 error, editId, filter, roomFilter, draggingId>>

\* the oldest pending write fails (the store refuses it, or it never gets
\* there): the promise rejects and the catch handler logs a warning
WriteRejected ==
  /\ pending # <<>>
  /\ pending' = Tail(pending)
  /\ UNCHANGED <<remote, used, snapshotDue, listening, todos, selectedCollection, others, form, modal,
                 filter, roomFilter, draggingId>>

\* ------------------------------------------------------------ other clients
\* another client, whose Local View is the collection as it is, adds an item
\* to the selected collection and the store applies the create
OtherClientAdds ==
  /\ \E id \in Ids \ used :
       /\ used' = used \cup {id}
       /\ remote' = [remote EXCEPT ![selectedCollection] =
             ApplyWrite(@, [kind |-> "create", id |-> id,
                            data |-> AddPayload("Dyson", "Kuhinja", "", NaN, "", "",
                                                SnapItems(remote[selectedCollection]))])]
  /\ snapshotDue' = TRUE
  /\ UNCHANGED <<pending, listening, todos, selectedCollection, form, modal, filter,
                 roomFilter, draggingId, others>>

\* another client removes an item and the store applies the delete
OtherClientRemoves(id) ==
  /\ id \in DOMAIN remote[selectedCollection]
  /\ remote' = [remote EXCEPT ![selectedCollection] =
        ApplyWrite(@, [kind |-> "delete", id |-> id])]
  /\ snapshotDue' = TRUE
  /\ UNCHANGED <<used, pending, listening, todos, selectedCollection, form, modal, filter,
                 roomFilter, draggingId, others>>

\* ------------------------------------------------------------------ JSON
\* A text is Text(s) when it is not JSON, [kind |-> "json", ...] when it is; a
\* boolean is written true or false in it.
Text(s) == [kind |-> "text", text |-> s]

BoolText(b) == IF b THEN "true" ELSE "false"

\* a value used as a condition: null and '' are falsy
Falsy(raw) == raw = Null \/ raw = Text("")

\* JSON.parse(raw) throws
JSONParseThrows(raw) == raw.kind # "json"

\* JSON.stringify of a list of todos, and JSON.parse of such a text
StringifyTodos(list) ==
  [i \in DOMAIN list |->
     [id |-> list[i].id, title |-> list[i].title, completed |-> BoolText(list[i].completed)]]

ParseTodos(items) ==
  [i \in DOMAIN items |->
     [id |-> items[i].id, title |-> items[i].title, completed |-> (items[i].completed = "true")]]

\* JSON.stringify of an object whose fields are strings but for completed
StringifyObject(o) ==
  [kind |-> "json",
   object |-> [k \in DOMAIN o |-> IF k = "completed" THEN BoolText(o[k]) ELSE o[k]]]

\* the fields an object spread takes from JSON.parse(raw): those of an object,
\* none of a number or of null
ParsedFields(raw) ==
  IF "object" \in DOMAIN raw
  THEN [k \in DOMAIN raw.object |->
          IF k = "completed" THEN raw.object[k] = "true" ELSE raw.object[k]]
  ELSE EmptyFn

\* --------------------------------------------------- sample-data endpoint
SampleTodos ==
  <<[id |-> "1", title |-> "Explore the new app", completed |-> FALSE],
    [id |-> "2", title |-> "Add your first task", completed |-> TRUE]>>

headers ==
  [ContentType |-> "application/json", AllowOrigin |-> "*", AllowMethods |-> "GET,POST,OPTIONS"]

\* a handler whose POST branch parses outside the try block
handlerWithoutCatch(ev, t) ==
  IF ev.httpMethod = "OPTIONS"
  THEN [statusCode |-> 200, headers |-> headers, body |-> Text("")]
  ELSE CASE ev.httpMethod = "GET" ->
              [statusCode |-> 200, headers |-> headers,
               body |-> [kind |-> "json", todos |-> StringifyTodos(SampleTodos)]]
         [] ev.httpMethod = "POST" ->
              IF ~Falsy(ev.body) /\ JSONParseThrows(ev.body)
              THEN [statusCode |-> 0, thrown |-> "SyntaxError"]
              ELSE [statusCode |-> 201, headers |-> headers,
                    body |-> StringifyObject(
                      (IF Falsy(ev.body) THEN EmptyFn ELSE ParsedFields(ev.body))
                      @@ ("id" :> ToString(t)))]
         [] OTHER ->
              [statusCode |-> 405, headers |-> headers,
               body |-> StringifyObject([error |-> "Method Not Allowed"])]

\* exports.handler: the response to request ev handled at time t
handler(ev, t) ==
  IF ev.httpMethod = "OPTIONS"
  THEN [statusCode |-> 200, headers |-> headers, body |-> Text("")]
  ELSE CASE ev.httpMethod = "GET" ->
              [statusCode |-> 200, headers |-> headers,
               body |-> [kind |-> "json", todos |-> StringifyTodos(SampleTodos)]]
         [] ev.httpMethod = "POST" ->
              IF ~Falsy(ev.body) /\ JSONParseThrows(ev.body)
              THEN [statusCode |-> 500, headers |-> headers,
                    body |-> StringifyObject([error |-> "SyntaxError"])]
              ELSE [statusCode |-> 201, headers |-> headers,
                    body |-> StringifyObject(
                      (IF Falsy(ev.body) THEN EmptyFn ELSE ParsedFields(ev.body))
                      @@ ("id" :> ToString(t)))]
         [] OTHER ->
              [statusCode |-> 405, headers |-> headers,
               body |-> StringifyObject([error |-> "Method Not Allowed"])]

Methods == {"GET", "POST", "OPTIONS", "PUT", "DELETE"}

\* the bodies requests come with: none, empty, not JSON, a todo, a todo with
\* completed, a todo that has an id, and a number
Bodies ==
  {Null, Text(""), Text("{oops"),
   [kind |-> "json", object |-> [title |-> "Milk"]],
   [kind |-> "json", object |-> [title |-> "Milk", completed |-> "true"]],
   [kind |-> "json", object |-> [id |-> "7", title |-> "Milk"]],
   [kind |-> "json", number |-> 5]}

\* a request reaches the endpoint and is answered
HandleRequest(m, b) ==
  /\ \E t \in {now, now + 1} :
       /\ t <= MaxClock
       /\ now' = t
       /\ event' = [httpMethod |-> m, body |-> b]
       /\ response' = handler(event', t)
  /\ UNCHANGED <<app, local>>

\* ------------------------------------------------- the local-only version
STORAGE_KEY == "condo.todos"

\* what the user types as a title
Titles == {"Dyson", " Dyson ", " "}

\* crypto.randomUUID's values
UUIDs == {"a", "b", "c"}

\* localStorage.getItem(key)
GetItem(key) == IF key \in DOMAIN stored THEN stored[key] ELSE Null

\* useState's initializer: the stored list, [] when there is none or it does
\* not parse
InitialTodos ==
  LET raw == GetItem(STORAGE_KEY)
  IN IF Falsy(raw) THEN <<>>
     ELSE IF JSONParseThrows(raw) THEN <<>>
     ELSE ParseTodos(raw.todos)

\* an effect that saves under a key of its own for every length of the list
SavedUnderKeyPerLength(list) ==
  (ToString(Len(list)) :> [kind |-> "json", todos |-> StringifyTodos(list)]) @@ stored

\* the effect on [todos]: localStorage after setItem(STORAGE_KEY, JSON.stringify(list))
Saved(list) ==
  (STORAGE_KEY :> [kind |-> "json", todos |-> StringifyTodos(list)]) @@ stored

\* the list becomes list and the effect saves it
SetLocalTodos(list) ==
  /\ localTodos' = list
  /\ stored' = Saved(list)
  /\ UNCHANGED <<mounted, app, endpoint>>

\* the page is opened: first render, then the effect
LocalMount ==
  /\ ~mounted
  /\ mounted' = TRUE
  /\ localTodos' = InitialTodos
  /\ stored' = Saved(localTodos')
  /\ UNCHANGED <<app, endpoint>>

\* the page is closed; localStorage stays
LocalUnmount ==
  /\ mounted
  /\ mounted' = FALSE
  /\ localTodos' = <<>>
  /\ UNCHANGED <<stored, app, endpoint>>

addTodo(title) ==
  /\ mounted
  /\ Len(localTodos) < MaxIds
  /\ IF Trim(title) = ""
     THEN UNCHANGED vars
     ELSE \E u \in UUIDs \ IdsOf(localTodos) :
          SetLocalTodos(<<[id |-> u, title |-> Trim(title), completed |-> FALSE]>> \o localTodos)

localToggle(id) ==
  /\ mounted
  /\ SetLocalTodos([i \in DOMAIN localTodos |->
        IF localTodos[i].id = id THEN [localTodos[i] EXCEPT !.completed = ~@]
        ELSE localTodos[i]])

localRemove(id) ==
  /\ mounted
  /\ SetLocalTodos(SelectSeq(localTodos, LAMBDA t : t.id # id))

\* the item's form: onRename(todo.id, title.trim() || todo.title)
rename(id, title) ==
  /\ mounted
  /\ SetLocalTodos([i \in DOMAIN localTodos |->
        IF localTodos[i].id = id
        THEN [localTodos[i] EXCEPT !.title = IF Trim(title) = "" THEN @ ELSE Trim(title)]
        ELSE localTodos[i]])

clearCompleted ==
  /\ mounted
  /\ SetLocalTodos(SelectSeq(localTodos, LAMBDA t : ~t.completed))

\* fetch('/api/todos'), then the merge of the todos whose id is not there yet;
\* nothing changes when the request fails or is not answered with 2xx
loadSample ==
  /\ mounted
  /\ \/ UNCHANGED vars
     \/ LET res == handler([httpMethod |-> "GET", body |-> Null], now)
        IN /\ res.statusCode \in 200..299
           /\ SetLocalTodos(localTodos \o
                SelectSeq(ParseTodos(res.body.todos),
                          LAMBDA t : t.id \notin IdsOf(localTodos)))

\* ---------------------------------------------------------- specification
Next ==
  \/ OnSnapshot
  \/ StreamRedelivers
  \/ StreamError
  \/ \E c \in Collections : SelectCollection(c)
  \/ \E f \in Filters : SetFilter(f)
  \/ \E r \in RoomFilters : SetRoomFilter(r)
  \/ openAddModal
  \/ \E t \in Range(Filtered) : openEditModal(t)
  \/ closeModal
  \/ \E f \in FormInputs : TypeForm(f)
  \/ handleSubmit
  \/ \E t \in Range(Filtered) : toggle(t.id)
  \/ \E t \in Range(Filtered) : remove(t.id)
  \/ \E t \in Range(Filtered) : onDragStartCard(t.id)
  \/ \E t \in Range(Filtered) : onDropCard(t.id)
  \/ onDragEndCard
  \/ WriteAcknowledged
  \/ WriteRejected
  \/ OtherClientAdds
  \/ \E id \in Ids : OtherClientRemoves(id)
  \/ \E m \in Methods, b \in Bodies : HandleRequest(m, b)
  \/ LocalMount
  \/ LocalUnmount
  \/ \E title \in Titles : addTodo(title)
  \/ \E t \in Range(localTodos) : localToggle(t.id)
  \/ \E t \in Range(localTodos) : localRemove(t.id)
  \/ \E t \in Range(localTodos), title \in Titles : rename(t.id, title)
  \/ clearCompleted
  \/ loadSample

Spec == Init /\ [][Next]_vars

\* The claims are checked under specifications that leave the user the gestures
\* one feature needs; each one's behaviours are behaviours of Spec.

\* drag-and-drop reordering of a list the store already holds
NextReorder ==
  \/ OnSnapshot
  \/ \E t \in Range(Filtered) : onDragStartCard(t.id)
  \/ \E t \in Range(Filtered) : onDropCard(t.id)
  \/ onDragEndCard
  \/ WriteAcknowledged
  \/ WriteRejected

SpecReorder == Init /\ [][NextReorder]_vars

\* the same, in a view the user switches between all items and the active ones
ReorderFilters == {"all", "active"}

NextReorderFiltered ==
  \/ OnSnapshot
  \/ \E f \in ReorderFilters : SetFilter(f)
  \/ \E t \in Range(Filtered) : onDragStartCard(t.id)
  \/ \E t \in Range(Filtered) : onDropCard(t.id)
  \/ onDragEndCard
  \/ WriteAcknowledged
  \/ WriteRejected

SpecReorderFiltered == Init /\ [][NextReorderFiltered]_vars

\* the same, on the shortest list in which a drag between two shown items
\* passes a hidden one: three items, the second ticked
HiddenDragItems == 3

SpecReorderHidden == InitWith(HiddenDragItems) /\ [][NextReorderFiltered]_vars

\* adding and removing items
AddForms == {FormOf("Dyson", "Kuhinja", "", "", "", "")}

NextAdd ==
  \/ OnSnapshot
  \/ openAddModal
  \/ \E f \in AddForms : TypeForm(f)
  \/ handleSubmit
  \/ \E t \in Range(Filtered) : remove(t.id)
  \/ WriteAcknowledged
  \/ WriteRejected

SpecAdd == Init /\ [][NextAdd]_vars

\* editing items
EditForms ==
  {FormOf("Dyson", "Kuhinja", "", "", "", ""),
   FormOf(" Dyson ", "Kuhinja", "V15", "299", "https://img", "https://shop"),
   FormOf("Dyson", "Kuhinja", "", "12", "", "")}

NextEdit ==
  \/ OnSnapshot
  \/ \E t \in Range(Filtered) : openEditModal(t)
  \/ closeModal
  \/ \E f \in EditForms : TypeForm(f)
  \/ handleSubmit
  \/ WriteAcknowledged
  \/ WriteRejected

SpecEdit == InitEdit /\ [][NextEdit]_vars

\* adding and editing through the form, the list kept short
SubmitItems == 2

SubmitForms ==
  {FormOf("Dyson", "Kuhinja", "", "", "", ""),
   FormOf("Dyson", "Hodnik", "", "", "", "")}

NextSubmit ==
  \/ OnSnapshot
  \/ openAddModal
  \/ \E t \in Range(Filtered) : openEditModal(t)
  \/ closeModal
  \/ \E f \in SubmitForms : TypeForm(f)
  \/ (editId = NoId => Cardinality(used) < SubmitItems) /\ handleSubmit
  \/ WriteAcknowledged
  \/ WriteRejected

SpecSubmit == InitEdit /\ [][NextSubmit]_vars

\* submitting forms the validation has to judge
ValidationForms ==
  {FormOf("Dyson", "Kuhinja", "", "", "", ""),
   FormOf(" ", "Kuhinja", "", "", "", ""),
   FormOf("Dyson", "", "", "", "", ""),
   FormOf("Dyson", "Kuhinja", "", "abc", "", ""),
   FormOf("Dyson", "Kuhinja", "", "12abc", "", ""),
   FormOf("Dyson", "Kuhinja", "", "", "bad", ""),
   FormOf("Dyson", "Kuhinja", "", "", "", "bad")}

NextValidation ==
  \/ OnSnapshot
  \/ openAddModal
  \/ \E t \in Range(Filtered) : openEditModal(t)
  \/ \E f \in ValidationForms : TypeForm(f)
  \/ handleSubmit
  \/ WriteAcknowledged
  \/ WriteRejected

SpecValidation == InitFull /\ [][NextValidation]_vars

\* editing an item of a collection another writer has written to
SpecEditLegacy == InitLegacy /\ [][NextEdit]_vars

\* ticking items
NextToggle ==
  \/ OnSnapshot
  \/ \E t \in Range(Filtered) : toggle(t.id)
  \/ WriteAcknowledged
  \/ WriteRejected

SpecToggle == Init /\ [][NextToggle]_vars

\* ticking by id, whether or not the Local View holds the item
NextToggleAny ==
  \/ OnSnapshot
  \/ \E id \in Ids : toggle(id)
  \/ WriteAcknowledged
  \/ WriteRejected

SpecToggleAny == Init /\ [][NextToggleAny]_vars

\* removing items
NextRemove ==
  \/ OnSnapshot
  \/ \E t \in Range(Filtered) : remove(t.id)
  \/ WriteAcknowledged
  \/ WriteRejected

SpecRemove == Init /\ [][NextRemove]_vars

\* a stream that can break, under a user who ticks items and switches lists
NextStream ==
  \/ OnSnapshot
  \/ StreamError
  \/ \E c \in Collections : SelectCollection(c)
  \/ \E t \in Range(Filtered) : toggle(t.id)
  \/ WriteAcknowledged
  \/ WriteRejected

SpecStream == Init /\ [][NextStream]_vars

\* switching between the lists while ticking items
NextSwitch ==
  \/ OnSnapshot
  \/ \E c \in Collections : SelectCollection(c)
  \/ \E t \in Range(Filtered) : toggle(t.id)
  \/ WriteAcknowledged
  \/ WriteRejected

SpecSwitch == Init /\ [][NextSwitch]_vars

\* every operation that writes to the store, on a short list
NextOperations ==
  \/ OnSnapshot
  \/ openAddModal
  \/ \E t \in Range(Filtered) : openEditModal(t)
  \/ \E f \in AddForms : TypeForm(f)
  \/ handleSubmit
  \/ \E t \in Range(Filtered) : toggle(t.id)
  \/ \E t \in Range(Filtered) : remove(t.id)
  \/ \E t \in Range(Filtered) : onDragStartCard(t.id)
  \/ \E t \in Range(Filtered) : onDropCard(t.id)
  \/ WriteAcknowledged
  \/ WriteRejected

SpecOperations == InitOperations /\ [][NextOperations]_vars

\* reordering and removing under a stream that keeps delivering snapshots
NextEventually ==
  \/ OnSnapshot
  \/ StreamRedelivers
  \/ \E t \in Range(Filtered) : remove(t.id)
  \/ \E t \in Range(Filtered) : onDragStartCard(t.id)
  \/ \E t \in Range(Filtered) : onDropCard(t.id)
  \/ WriteAcknowledged
  \/ WriteRejected

\* a snapshot that is due is delivered: WF_vars(OnSnapshot), with the condition
\* under which the callback can run written out
SnapshotsAreDelivered ==
  []<>(~(listening /\ snapshotDue)) \/ []<><<OnSnapshot>>_vars

SpecEventually ==
  /\ InitWith(MaxEditItems + 1)
  /\ [][NextEventually]_vars
  /\ WF_vars(StreamRedelivers)
  /\ SnapshotsAreDelivered

\* looking at the list through the filters while ticking items
ViewRoomFilters == {"all", "Kuhinja", "Hodnik", "Terasa"}

NextView ==
  \/ OnSnapshot
  \/ \E f \in Filters : SetFilter(f)
  \/ \E r \in ViewRoomFilters : SetRoomFilter(r)
  \/ \E t \in Range(Filtered) : toggle(t.id)
  \/ WriteAcknowledged
  \/ WriteRejected

SpecView == InitView /\ [][NextView]_vars

\* adding and reordering while another client adds and removes
NextConcurrent ==
  \/ OnSnapshot
  \/ openAddModal
  \/ \E f \in AddForms : TypeForm(f)
  \/ handleSubmit
  \/ \E t \in Range(Filtered) : onDragStartCard(t.id)
  \/ \E t \in Range(Filtered) : onDropCard(t.id)
  \/ WriteAcknowledged
  \/ WriteRejected
  \/ OtherClientAdds
  \/ \E id \in Ids : OtherClientRemoves(id)

SpecConcurrent == InitWith(MaxEditItems) /\ [][NextConcurrent]_vars

\* the local-only version on its own, opened in a browser whose localStorage
\* has no entry, an empty one, one that is not JSON, or a list saved before
StoredBefore ==
  {EmptyFn,
   STORAGE_KEY :> Text(""),
   STORAGE_KEY :> Text("{oops"),
   STORAGE_KEY :> [kind |-> "json", todos |-> StringifyTodos(SampleTodos)]}

InitLocal ==
  /\ AppInitWith(0)
  /\ localTodos = <<>>
  /\ stored \in StoredBefore
  /\ mounted = FALSE
  /\ EndpointIdle

NextLocal ==
  \/ LocalMount
  \/ LocalUnmount
  \/ \E title \in Titles : addTodo(title)
  \/ \E t \in Range(localTodos) : localToggle(t.id)
  \/ \E t \in Range(localTodos) : localRemove(t.id)
  \/ \E t \in Range(localTodos), title \in Titles : rename(t.id, title)
  \/ clearCompleted
  \/ loadSample

SpecLocal == InitLocal /\ [][NextLocal]_vars

\* the endpoint on its own
NextEndpoint == \E m \in Methods, b \in Bodies : HandleRequest(m, b)

SpecEndpoint == InitWith(0) /\ [][NextEndpoint]_vars

\* ------------------------------------------------------------ properties
IdSeq(list) == [i \in DOMAIN list |-> list[i].id]

\* the step delivers a snapshot
SnapshotStep == snapshotDue /\ ~snapshotDue'

\* list shows exactly the documents of coll, in ascending order of their sort
ShowsCollection(list, coll) ==
  /\ Len(list) = Cardinality(DOMAIN coll)
  /\ IdsOf(list) = DOMAIN coll
  /\ \A i, j \in DOMAIN list : i < j => coll[list[i].id].sort <= coll[list[j].id].sort
  /\ \A i \in DOMAIN list :
       /\ list[i].completed = coll[list[i].id].completed
       /\ list[i].name = coll[list[i].id].name
       /\ list[i].room = coll[list[i].id].room

\* C1: a delivered snapshot replaces the Local View wholesale by the snapshot's
\* items in ascending position, whatever the view held; between snapshots the
\* view changes only by a local reorder of the items it holds.
C1_SnapshotReplacesLocalView ==
  [][/\ SnapshotStep => ShowsCollection(todos', remote[selectedCollection])
     /\ (todos' # todos /\ ~SnapshotStep) =>
          /\ draggingId # NoId /\ draggingId' = NoId
          /\ Len(todos') = Len(todos)
          /\ Range(todos') = Range(todos)]_vars

\* a snapshot has overwritten a reorder whose batch is still in flight
C1_Witness ==
  /\ pending # <<>>
  /\ pending[Len(pending)].kind = "batch"
  /\ ~snapshotDue
  /\ IdSeq(pending[Len(pending)].updates) # IdSeq(todos)
  /\ ShowsCollection(todos, remote[selectedCollection])

\* the Local View has caught up with the store: nothing in flight, no snapshot
\* due, and the view is the latest snapshot
Reconciled ==
  /\ pending = <<>>
  /\ ~snapshotDue
  /\ todos = SnapItems(remote[selectedCollection])

\* C2: whenever the Local View is reconciled with the store, no two items of
\* the collection have the same position.
C2_UniquePositions ==
  Reconciled =>
    \A i, j \in DOMAIN remote[selectedCollection] :
      i # j => remote[selectedCollection][i].sort # remote[selectedCollection][j].sort

\* C3: a reorder reaches the store as one batch and never as per-item updates of
\* sort, and a step of the store that changes a collection on behalf of a batch
\* applies every update of the batch and touches nothing else.
C3_BatchAllOrNothing ==
  [][/\ \A k \in DOMAIN pending' :
          pending'[k].from = "order" => pending'[k].kind = "batch"
     /\ (pending # <<>> /\ Head(pending).from = "order" /\ remote' # remote) =>
          LET w == Head(pending)
              touched == {w.updates[u].id : u \in DOMAIN w.updates}
          IN /\ DOMAIN remote'[w.coll] = DOMAIN remote[w.coll]
             /\ \A u \in DOMAIN w.updates :
                  remote'[w.coll][w.updates[u].id].sort = w.updates[u].payload.sort.v
             /\ \A i \in DOMAIN remote[w.coll] \ touched :
                  remote'[w.coll][i] = remote[w.coll][i]]_vars

\* the store holds an order that only a committed batch of three updates gives
C3_Witness ==
  /\ DOMAIN remote["todos"] = 1..3
  /\ remote["todos"][3].sort = 0
  /\ remote["todos"][1].sort = 1
  /\ remote["todos"][2].sort = 2

\* the step is a drop onto targetId that reorders the Local View
ReorderingDrop(targetId) ==
  /\ ~DropIgnored(todos, draggingId, targetId)
  /\ onDropCard(targetId)

\* the step issues a write while an item is being dragged
IssuesWhileDragging == draggingId # NoId /\ Len(pending') > Len(pending)

\* the write issued last
LastWrite(queue) == queue[Len(queue)]

UpdatedIds(w) == {w.updates[u].id : u \in DOMAIN w.updates}

AllBut(list, id) == SelectSeq(list, LAMBDA x : x.id # id)

\* C4: a drop of the dragged item s onto another item t leaves s at the index t
\* had, the other items in their former relative order, and issues a batch that
\* gives every item of the new list its 0-based index as position.
C4_DropMovesToTargetIndex ==
  [][IssuesWhileDragging => \A t \in IdsOf(todos) : ReorderingDrop(t) =>
       LET s == draggingId
           b == LastWrite(pending')
       IN /\ todos'[FindIndex(todos, t) + 1] = todos[FindIndex(todos, s) + 1]
          /\ AllBut(todos', s) = AllBut(todos, s)
          /\ b.kind = "batch"
          /\ \A i \in DOMAIN todos' : \E u \in DOMAIN b.updates :
               b.updates[u].id = todos'[i].id /\ b.updates[u].payload.sort.v = i - 1
          /\ {b.updates[u].payload.sort.v : u \in DOMAIN b.updates} = 0..(Len(todos') - 1)]_vars

\* A, B, C with C dragged onto A: C=0, A=1, B=2 in one batch of three updates
C4_Witness ==
  /\ IdSeq(todos) = <<3, 1, 2>>
  /\ pending = <<[kind |-> "batch", coll |-> "todos", from |-> "order",
                  updates |-> <<[id |-> 3, payload |-> [sort |-> Val(0)]],
                                [id |-> 1, payload |-> [sort |-> Val(1)]],
                                [id |-> 2, payload |-> [sort |-> Val(2)]]>>]>>

\* C5, as claimed: the batch updates exactly the items whose index changed.
C5_BatchIsMinimal ==
  [][IssuesWhileDragging => \A t \in IdsOf(todos) : ReorderingDrop(t) =>
       UpdatedIds(LastWrite(pending')) =
         {todos[i].id : i \in {j \in DOMAIN todos : todos'[j].id # todos[j].id}}]_vars

\* C5, amended: the batch is not minimal; it updates every item whose index
\* changed and also every item whose index did not, writing that index again.
C5_BatchCoversUnchangedItems ==
  [][IssuesWhileDragging => \A t \in IdsOf(todos) : ReorderingDrop(t) =>
       LET b == LastWrite(pending')
       IN /\ UpdatedIds(b) = IdsOf(todos)
          /\ \A i \in DOMAIN todos : todos'[i].id = todos[i].id =>
               \E u \in DOMAIN b.updates :
                 b.updates[u].id = todos[i].id /\ b.updates[u].payload.sort.v = i - 1]_vars

\* B and A have swapped, and the batch in flight writes 2 to C, which has 2
C5_Witness ==
  /\ IdSeq(todos) = <<2, 1, 3>>
  /\ pending # <<>>
  /\ LastWrite(pending).kind = "batch"
  /\ \E u \in DOMAIN LastWrite(pending).updates :
       LastWrite(pending).updates[u] = [id |-> 3, payload |-> [sort |-> Val(2)]]
  /\ remote["todos"][3].sort = 2

\* C6: a reordering drop issues one batch on the selected collection holding
\* exactly one update per item of the full new list, in list order, each
\* writing sort and nothing else, set to the item's new index.
C6_BatchWritesSortOfAllItems ==
  [][IssuesWhileDragging => \A t \in IdsOf(todos) : ReorderingDrop(t) =>
       LET b == LastWrite(pending')
       IN /\ Len(pending') = Len(pending) + 1
          /\ b.kind = "batch"
          /\ b.coll = selectedCollection
          /\ Len(todos') = Len(todos)
          /\ DOMAIN b.updates = DOMAIN todos'
          /\ \A i \in DOMAIN todos' :
               /\ b.updates[i].id = todos'[i].id
               /\ DOMAIN b.updates[i].payload = {"sort"}
               /\ b.updates[i].payload.sort = Val(i - 1)]_vars

\* a drag within a filtered view has issued a batch for the whole list
C6_Witness ==
  /\ filter # "all"
  /\ Len(Filtered) < Len(todos)
  /\ pending # <<>>
  /\ LastWrite(pending).kind = "batch"
  /\ IdSeq(LastWrite(pending).updates) = IdSeq(todos)
  /\ IdSeq(todos) # <<1, 2, 3>>
  /\ Len(todos) = 3

\* C7, as claimed: dragging s onto t again after the drop changes nothing.
C7_SameDropIsIdempotent ==
  [][IssuesWhileDragging => \A t \in IdsOf(todos) : ReorderingDrop(t) =>
       DropResult(todos', draggingId, t) = todos']_vars

\* C7, amended: after a drop of s onto t, dragging s onto t again moves s once
\* more; the gesture changes nothing only when s is dropped at the index it now
\* occupies, the one t had, which is a drop of s onto itself.
C7_RepeatedDropMovesAgain ==
  [][IssuesWhileDragging => \A t \in IdsOf(todos) : ReorderingDrop(t) =>
       /\ DropResult(todos', draggingId, t) # todos'
       /\ DropResult(todos', draggingId, todos'[FindIndex(todos, t) + 1].id) = todos']_vars

\* C dragged onto A is committed (C=0, A=1, B=2), and C dragged onto A again
\* has moved C behind A
C7_Witness ==
  /\ DOMAIN remote["todos"] = 1..3
  /\ remote["todos"][3].sort = 0 /\ remote["todos"][1].sort = 1 /\ remote["todos"][2].sort = 2
  /\ IdSeq(todos) = <<1, 3, 2>>
  /\ pending # <<>>
  /\ LastWrite(pending).kind = "batch"
  /\ IdSeq(LastWrite(pending).updates) = <<1, 3, 2>>

\* the step is a valid submit of the add form
SubmitsAdd == editId = NoId /\ Len(pending') > Len(pending) /\ handleSubmit

\* C8: a valid add issues exactly one create request, on the selected
\* collection, with the number of items of the Local View as position and
\* completed = false, and changes neither the store nor the Local View.
C8_AddCreatesAtLocalCount ==
  [][SubmitsAdd =>
       LET w == LastWrite(pending')
       IN /\ pending' = Append(pending, w)
          /\ w.kind = "create"
          /\ w.coll = selectedCollection
          /\ w.data.sort = Len(todos)
          /\ w.data.completed = FALSE
          /\ remote' = remote
          /\ todos' = todos]_vars

\* with two items in the Local View, the create in flight has position 2
C8_Witness ==
  /\ Len(todos) = 2
  /\ pending # <<>>
  /\ LastWrite(pending).kind = "create"
  /\ LastWrite(pending).data.sort = 2

\* C9: an add is an append: the position it is created with is strictly greater
\* than the position of every item of the collection, so that the new item is
\* last once the create is confirmed. Stated for an add submitted from a
\* reconciled Local View, where nothing else is in flight.
C9_AddAppendsAtEnd ==
  [][(SubmitsAdd /\ Reconciled) =>
       \A i \in DOMAIN remote[selectedCollection] :
         remote[selectedCollection][i].sort < LastWrite(pending').data.sort]_vars

OptionalFields == {"model", "price", "imgUrl", "link"}

\* what the form holds for an optional field, trimmed
FormText(fld) ==
  CASE fld = "model" -> Trim(model)
    [] fld = "price" -> Trim(price)
    [] fld = "imgUrl" -> Trim(imgUrl)
    [] fld = "link" -> Trim(link)

\* the step is a valid submit of the edit form
SubmitsEdit == editId # NoId /\ Len(pending') > Len(pending) /\ handleSubmit

\* the step is the store applying a submitted edit
AppliesEdit ==
  /\ Len(pending') < Len(pending)
  /\ Head(pending).kind = "update"
  /\ Head(pending).from = "submit"
  /\ WriteAcknowledged

\* C10: a valid edit issues one update of the edited item in which every
\* optional field left empty carries the remove-this-field marker and every
\* other one its new value; once the store has applied it, the document, and
\* so the item of the next snapshot, has no field that was marked and has the
\* new value in every other one.
C10_EditRemovesEmptyFields ==
  [][/\ SubmitsEdit =>
          LET w == LastWrite(pending')
          IN /\ pending' = Append(pending, w)
             /\ w.kind = "update"
             /\ w.coll = selectedCollection
             /\ w.id = editId
             /\ \A fld \in OptionalFields :
                  IF FormText(fld) = ""
                  THEN w.payload[fld] = DeleteField
                  ELSE w.payload[fld] =
                         Val(IF fld = "price" THEN ParseFloat(FormText(fld)).num
                             ELSE FormText(fld))
     /\ AppliesEdit =>
          LET w == Head(pending)
              d == remote'[w.coll][w.id]
              item == SnapItems(remote'[w.coll])[FindIndex(SnapItems(remote'[w.coll]), w.id) + 1]
          IN \A fld \in OptionalFields :
               IF w.payload[fld] = DeleteField
               THEN fld \notin DOMAIN d /\ fld \notin DOMAIN item
               ELSE /\ fld \in DOMAIN d /\ d[fld] = w.payload[fld].v
                    /\ fld \in DOMAIN item /\ item[fld] = w.payload[fld].v]_vars

\* an edit that empties the price, and keeps the model, of an item that has a
\* price is in flight
C10_Witness ==
  /\ pending # <<>>
  /\ Head(pending).kind = "update"
  /\ Head(pending).from = "submit"
  /\ Head(pending).payload.price = DeleteField
  /\ Head(pending).id \in DOMAIN remote[Head(pending).coll]
  /\ "price" \in DOMAIN remote[Head(pending).coll][Head(pending).id]

\* the item of list with the given id
ItemOf(list, id) == list[FindIndex(list, id) + 1]

\* the step is toggle(id) issuing its write
TogglesItem(id) == Len(pending') > Len(pending) /\ toggle(id)

RemovesItem(id) == Len(pending') > Len(pending) /\ remove(id)

IsNumberText(s) == s \in {"299", "12"}

\* the form holds one of the inputs C13 names
InvalidForm ==
  \/ Trim(name) = ""
  \/ Trim(room) = ""
  \/ Trim(price) # "" /\ ~IsNumberText(Trim(price))
  \/ Trim(imgUrl) # "" /\ ~isValidUrl(Trim(imgUrl))
  \/ Trim(link) # "" /\ ~isValidUrl(Trim(link))

\* C13: a submit of a form with an empty title, an empty category, a non-empty
\* price that is not a number or a non-empty malformed URL issues no request,
\* leaves the Local View and the store unchanged and only sets an error message.
C13_InvalidSubmitRejected ==
  [][(modalOpen /\ InvalidForm /\ handleSubmit) =>
       /\ pending' = pending
       /\ remote' = remote
       /\ todos' = todos
       /\ error' # NoError
       /\ UNCHANGED <<used, snapshotDue, selectedCollection, others, form, modalOpen, editId,
                      filter, roomFilter, draggingId>>]_vars

\* C14: no create or update the form issues carries a room outside ROOMS, also
\* when the item edited has such a room in the store.
C14_RoomWithinEnumeratedSet ==
  \A k \in DOMAIN pending :
    /\ pending[k].kind = "create" => pending[k].data.room \in ROOMS
    /\ (pending[k].kind = "update" /\ pending[k].from = "submit") =>
         pending[k].payload.room.v \in ROOMS

\* everything the client holds that the page is rendered from
ClientState ==
  <<todos, selectedCollection, form, modal, filter, roomFilter, draggingId>>

\* the step is the stream reporting an error
StreamErrorStep == listening /\ ~listening'

\* C15: when the stream reports an error the Local View keeps its items and a
\* degraded-connectivity signal becomes observable: something the client holds
\* and renders from is different after the error.
C15_StreamErrorRaisesSignal ==
  [][StreamErrorStep =>
       /\ todos' = todos
       /\ ClientState' # ClientState]_vars

\* C16: while a collection is selected the Local View shows no item of another
\* collection, the window before the selected collection's first snapshot
\* included.
C16_NoItemsOfPreviousCollection ==
  \A i \in DOMAIN todos : \A c \in Collections :
    todos[i].id \in DOMAIN remote[c] => c = selectedCollection

\* the step is the failure of the reorder batch that is the oldest write in flight
OrderBatchFails ==
  /\ Len(pending') < Len(pending)
  /\ Head(pending).from = "order"
  /\ remote' = remote
  /\ WriteRejected

\* C17: the failure of a reorder batch rolls nothing back: the Local View keeps
\* the order the drop gave it; the order changes again only by a snapshot, which
\* shows the store's order, or by another drop.
C17_FailedBatchKeepsLocalOrder ==
  [][/\ OrderBatchFails => todos' = todos
     /\ todos' # todos =>
          \/ SnapshotStep /\ IdSeq(todos') = Query(remote[selectedCollection])
          \/ IssuesWhileDragging /\ ~SnapshotStep]_vars

\* nothing is in flight and no snapshot is due, yet the Local View shows the
\* three items in another order than the store: a batch has failed
C17_Witness ==
  /\ pending = <<>>
  /\ ~snapshotDue
  /\ Len(todos) = 3
  /\ IdsOf(todos) = DOMAIN remote[selectedCollection]
  /\ IdSeq(todos) # Query(remote[selectedCollection])

\* the step is one of the user's operations that write to the store
UserOperation ==
  \/ handleSubmit
  \/ \E t \in Range(Filtered) : toggle(t.id)
  \/ \E t \in Range(Filtered) : remove(t.id)
  \/ \E t \in Range(Filtered) : onDropCard(t.id)

\* C18: nothing is retried. The writes in flight change only by one request
\* being issued, in a step that is an operation of the user (add, edit, toggle,
\* remove or reorder, each issuing one request at most), or by the oldest one
\* completing; a request that fails leaves the others as they are, issues
\* nothing, and changes neither the store nor the Local View.
C18_NoAutomaticRetry ==
  [][pending' # pending =>
       \/ /\ Len(pending') = Len(pending) + 1
          /\ pending' = Append(pending, LastWrite(pending'))
          /\ UserOperation
       \/ /\ pending' = Tail(pending)
          /\ remote' = remote => UNCHANGED <<used, snapshotDue, listening, todos,
                                             selectedCollection, others, form, error, editId,
                                             filter, roomFilter, draggingId>>]_vars

\* a request has failed and nothing has been issued in its place: with nothing
\* in flight and no snapshot due, the two items of the Local View are in the
\* order of a reorder the store has never applied
C18_Witness ==
  /\ pending = <<>>
  /\ ~snapshotDue
  /\ Len(todos) = 2
  /\ IdsOf(todos) = DOMAIN remote[selectedCollection]
  /\ IdSeq(todos) # Query(remote[selectedCollection])

\* C19: a drop of the dragged item onto itself changes nothing: the Local View
\* keeps its order, no batch or other write is issued, the store is untouched.
C19_DropOntoItselfIsNoOp ==
  [][\A t \in IdsOf(todos) : (draggingId = t /\ onDropCard(t)) =>
       /\ todos' = todos
       /\ pending' = pending
       /\ remote' = remote]_vars

\* an item of the Local View is being dragged and can be dropped onto itself;
\* nothing is in flight
C19_Witness ==
  /\ draggingId # NoId
  /\ draggingId \in IdsOf(Filtered)
  /\ DropResult(todos, draggingId, draggingId) = todos
  /\ Len(todos) = 3
  /\ pending = <<>>

\* the Local View is the selected collection, in its order
Consistent == todos = SnapItems(remote[selectedCollection])

PassesFilters(t) ==
  /\ filter = "active" => ~t.completed
  /\ filter = "completed" => t.completed
  /\ roomFilter # "all" => t.room = roomFilter

\* the indices of the Local View's items that pass both filters
Shown == {i \in DOMAIN todos : PassesFilters(todos[i])}

RECURSIVE SumOver(_)
SumOver(idx) ==
  IF idx = {} THEN 0
  ELSE LET i == CHOOSE x \in idx : TRUE
       IN (IF "price" \in DOMAIN todos[i] THEN todos[i].price ELSE 0) + SumOver(idx \ {i})

OwnFields(w) ==
  CASE w.from = "order" -> {"sort"}
    [] w.from = "toggle" -> {"completed"}
    [] OTHER -> {"name", "room", "model", "price", "imgUrl", "link"}

\* the fields the payloads of an update or a batch name
WrittenFields(w) ==
  IF w.kind = "batch"
  THEN UNION {DOMAIN w.updates[u].payload : u \in DOMAIN w.updates}
  ELSE DOMAIN w.payload

\* documents d and e agree on field fld: both lack it or both have the same value
SameField(d, e, fld) ==
  /\ fld \in DOMAIN d <=> fld \in DOMAIN e
  /\ fld \in DOMAIN d => d[fld] = e[fld]

\* C22: each operation writes only its own fields. A reorder batch names no
\* field but sort, a toggle none but completed, an edit none of completed, sort,
\* id and createdAt; and when the store applies an update or a batch, the
\* collection has the same document ids as before and every document agrees
\* with what it was on every field that is not the operation's own.
C22_WritesOnlyOwnFields ==
  [][/\ Len(pending') > Len(pending) =>
          LET w == LastWrite(pending')
          IN w.kind \in {"update", "batch"} =>
               /\ WrittenFields(w) \subseteq OwnFields(w)
               /\ w.from = "order" => WrittenFields(w) = {"sort"}
               /\ w.from = "toggle" => WrittenFields(w) = {"completed"}
     /\ (remote' # remote /\ Head(pending).kind \in {"update", "batch"}) =>
          LET w == Head(pending)
          IN /\ DOMAIN remote'[w.coll] = DOMAIN remote[w.coll]
             /\ \A i \in DOMAIN remote[w.coll] :
                  \A fld \in (DOMAIN remote[w.coll][i] \cup DOMAIN remote'[w.coll][i])
                               \ OwnFields(w) :
                    SameField(remote[w.coll][i], remote'[w.coll][i], fld)]_vars

\* the store has applied a toggle of the first item and a reorder that put it
\* second: the document differs from the one created in completed and sort only
C22_Witness ==
  /\ 1 \in DOMAIN remote["todos"]
  /\ remote["todos"][1] = [SeedDoc(1) EXCEPT !.completed = TRUE, !.sort = 1]

\* the request's body is one JSON.parse is given and throws on
MalformedBody == ~Falsy(event.body) /\ event.body.kind # "json"

\* what the request posted: the fields of its JSON object, none when it has no
\* body or an empty one
PostedPayload ==
  IF "object" \in DOMAIN event.body THEN event.body.object ELSE EmptyFn

\* C24: the endpoint answers by method: GET with 200 and the fixed sample list,
\* POST with 201 and the posted payload's fields together with an id (a request
\* without a body posting no field), OPTIONS with 200 and an empty body, any
\* other method with 405, and a POST whose body is not JSON with 500, never by
\* throwing; the answer is a function of the request and of the clock alone.
C24_EndpointAnswersByMethod ==
  event # NoEvent =>
    /\ response = handler(event, now)
    /\ "thrown" \notin DOMAIN response
    /\ CASE event.httpMethod = "GET" ->
              /\ response.statusCode = 200
              /\ ParseTodos(response.body.todos) = SampleTodos
         [] event.httpMethod = "OPTIONS" ->
              /\ response.statusCode = 200
              /\ response.body = Text("")
         [] event.httpMethod = "POST" ->
              IF MalformedBody
              THEN response.statusCode = 500
              ELSE /\ response.statusCode = 201
                   /\ "id" \in DOMAIN response.body.object
                   /\ \A k \in DOMAIN PostedPayload :
                        /\ k \in DOMAIN response.body.object
                        /\ response.body.object[k] = PostedPayload[k]
         [] OTHER -> response.statusCode = 405

\* a POST whose body is not JSON has been answered with 500, the clock having
\* moved on since the endpoint came up
C24_Witness ==
  /\ event.httpMethod = "POST"
  /\ MalformedBody
  /\ response.statusCode = 500
  /\ now > 0

\* the step opens the page
LocalMountStep == ~mounted /\ mounted'

\* what the entry under STORAGE_KEY deserializes to: the list, or nothing
StoredList(storage) ==
  IF STORAGE_KEY \in DOMAIN storage /\ storage[STORAGE_KEY].kind = "json"
  THEN [list |-> ParseTodos(storage[STORAGE_KEY].todos)]
  ELSE [none |-> TRUE]

\* C23: in the local-only version, while the page is open the entry saved under
\* 'condo.todos' deserializes to the current list, after every step (add,
\* toggle, remove, rename, clear completed, load sample) and nothing is saved
\* under another key; when the page opens, the list is what the stored entry
\* deserializes to, or empty when there is no entry or it does not parse.
C23_LocalStoragePersists ==
  [][/\ mounted' =>
          /\ StoredList(stored') = [list |-> localTodos']
          /\ DOMAIN stored' = {STORAGE_KEY}
     /\ LocalMountStep =>
          localTodos' = IF "list" \in DOMAIN StoredList(stored)
                        THEN StoredList(stored).list ELSE <<>>]_vars

\* the page is open on a list of sample items and added ones, a sample item
\* renamed and an added one ticked, and the entry under the key is its text
C23_Witness ==
  /\ mounted
  /\ Len(localTodos) >= 3
  /\ \E i \in DOMAIN localTodos : localTodos[i].id = "1" /\ localTodos[i].title = "Dyson"
  /\ \E i \in DOMAIN localTodos : localTodos[i].id \in UUIDs /\ localTodos[i].completed
  /\ stored[STORAGE_KEY].todos = StringifyTodos(localTodos)

\* C25: a reordering drop permutes the full Local View: the new list has the
\* same items, none lost and none twice; the moved item is at the target's
\* index, the items between source and destination are shifted by one towards
\* the source, every other item keeps its index, and the items other than the
\* moved one keep their relative order; source and destination are indices of
\* the full list also when the view is filtered.
C25_ReorderIsPermutation ==
  [][IssuesWhileDragging => \A t \in IdsOf(todos) : ReorderingDrop(t) =>
       LET src == FindIndex(todos, draggingId) + 1
           dst == FindIndex(todos, t) + 1
           lo == IF src < dst THEN src ELSE dst
           hi == IF src < dst THEN dst ELSE src
       IN /\ Len(todos') = Len(todos)
          /\ Range(todos') = Range(todos)
          /\ Cardinality(IdsOf(todos')) = Len(todos')
          /\ todos'[dst] = todos[src]
          /\ \A i \in DOMAIN todos :
               /\ i \notin lo..hi => todos'[i] = todos[i]
               /\ (i \in lo..hi /\ i # dst) =>
                    todos'[i] = todos[IF src < dst THEN i + 1 ELSE i - 1]
          /\ AllBut(todos', draggingId) = AllBut(todos, draggingId)]_vars

\* in the view of the active items the first item was dropped onto the third:
\* the ticked second item, which the view hides, has moved up with the third
C25_Witness ==
  /\ filter = "active"
  /\ IdSeq(Filtered) = <<3, 1>>
  /\ IdSeq(todos) = <<2, 3, 1>>
  /\ pending # <<>>
  /\ LastWrite(pending).kind = "batch"
  /\ IdSeq(LastWrite(pending).updates) = <<2, 3, 1>>
  /\ Query(remote["todos"]) = <<1, 2, 3>>

\* the step is the store committing the reorder batch that is the oldest write
\* in flight
OrderBatchCommits ==
  /\ pending # <<>>
  /\ Head(pending).from = "order"
  /\ pending' = Tail(pending)
  /\ Accepts(remote[Head(pending).coll], Head(pending))
  /\ remote' = [remote EXCEPT ![Head(pending).coll] = ApplyWrite(@, Head(pending))]

\* the positions of the collection's items are 0..n-1, each once
ContiguousPositions(coll) ==
  /\ \A i, j \in DOMAIN coll : i # j => coll[i].sort # coll[j].sort
  /\ {coll[i].sort : i \in DOMAIN coll} = 0..(Cardinality(DOMAIN coll) - 1)

\* C26: right after the store has committed a reorder batch, the positions of
\* the items of the collection are exactly 0..n-1, without duplicates and
\* without gaps, also when items were added or removed since the snapshot the
\* reordering client last received.
C26_CommittedBatchLeavesContiguousPositions ==
  [][OrderBatchCommits => ContiguousPositions(remote'[Head(pending).coll])]_vars

\* the ids of the documents an update, a delete or a batch is addressed to
TargetIds(w) ==
  CASE w.kind = "batch" -> UpdatedIds(w)
    [] w.kind = "create" -> {}
    [] OTHER -> {w.id}

\* C27: every update, delete and batch is addressed to the collection its
\* target items belong to: no write in flight names, in one collection, the id
\* of an item of another collection.
C27_WritesAddressOwnCollection ==
  \A k \in DOMAIN pending : \A id \in TargetIds(pending[k]) : \A c \in Collections :
    id \in DOMAIN remote[c] => c = pending[k].coll

\* the dragged item or the target is not in the Local View
DragLostItem(targetId) ==
  /\ draggingId # NoId
  /\ draggingId \notin IdsOf(todos) \/ targetId \notin IdsOf(todos)

\* C28: a drop whose dragged item or whose target is no longer in the Local
\* View changes nothing: the Local View is as it was, no batch or other write
\* is issued, the store is untouched.
C28_DropOfLostItemIsNoOp ==
  [][\A t \in Ids : (DragLostItem(t) /\ onDropCard(t)) =>
       /\ todos' = todos
       /\ pending' = pending
       /\ remote' = remote]_vars

\* a snapshot has taken the dragged item out of the Local View during the
\* drag; an item to drop it onto is shown and a batch could be issued
C28_Witness ==
  /\ draggingId # NoId
  /\ draggingId \notin IdsOf(todos)
  /\ draggingId \notin DOMAIN remote[selectedCollection]
  /\ Filtered # <<>>
  /\ ~snapshotDue
  /\ pending = <<>>

\* the update toggle(id) sends when the Local View shows the item
ToggleWrite(id) ==
  [kind |-> "update", coll |-> selectedCollection, id |-> id,
   payload |-> [completed |-> Val(~ItemOf(todos, id).completed)], from |-> "toggle"]

\* an earlier toggle of the item is in the store and no snapshot has shown it
ToggledUnseen(id) ==
  /\ id \in IdsOf(todos)
  /\ id \in DOMAIN remote[selectedCollection]
  /\ remote[selectedCollection][id].completed # ItemOf(todos, id).completed

\* C29: toggle(id) issues exactly one update, with completed the negation of
\* the flag the Local View shows for the item; for an id the Local View does
\* not hold it issues no write at all; a toggle that follows an earlier one the
\* Local View has not yet seen writes the value the earlier one wrote.
C29_ToggleWritesNegationOfLocalView ==
  [][\A id \in Ids : toggle(id) =>
       /\ remote' = remote
       /\ todos' = todos
       /\ IF id \in IdsOf(todos)
          THEN pending' = Append(pending, ToggleWrite(id))
          ELSE pending' = pending
       /\ ToggledUnseen(id) =>
            pending'[Len(pending')].payload.completed =
              Val(remote[selectedCollection][id].completed)]_vars

\* the second of two toggles of one item with no snapshot between them is in
\* flight: it carries the value the first one has put in the store
C29_Witness ==
  /\ pending # <<>>
  /\ Head(pending).from = "toggle"
  /\ snapshotDue
  /\ ToggledUnseen(Head(pending).id)
  /\ Head(pending).payload.completed =
       Val(remote[selectedCollection][Head(pending).id].completed)

\* the oldest pending write is the request of a submitted form
SubmitInFlight == pending # <<>> /\ Head(pending).from = "submit"

\* C30: add and edit never change the Local View themselves: it changes only
\* when a snapshot is applied. Submitting leaves the form open; the form is
\* closed only by the user or when the store has carried out the create or
\* update; when the request fails the form stays open and the Local View and
\* the store are as they were.
C30_SubmitLeavesLocalViewToSnapshots ==
  [][/\ handleSubmit =>
          /\ todos' = todos
          /\ remote' = remote
          /\ modalOpen' = modalOpen
     /\ todos' # todos =>
          /\ SnapshotStep
          /\ todos' = SnapItems(remote[selectedCollection])
     /\ (modalOpen /\ ~modalOpen') =>
          \/ closeModal
          \/ /\ SubmitInFlight
             /\ Accepts(remote[Head(pending).coll], Head(pending))
             /\ remote' = [remote EXCEPT ![Head(pending).coll] = ApplyWrite(@, Head(pending))]
             /\ pending' = Tail(pending)
     /\ (SubmitInFlight /\ WriteRejected) =>
          /\ modalOpen' = modalOpen
          /\ todos' = todos
          /\ remote' = remote]_vars

\* a create has failed: its id is taken, no collection holds it, nothing is in
\* flight, the form is still open and the Local View shows what the store holds
C30_Witness ==
  /\ modalOpen
  /\ editId = NoId
  /\ pending = <<>>
  /\ \E id \in used : \A c \in Collections : id \notin DOMAIN remote[c]
  /\ ~snapshotDue
  /\ listening
  /\ todos = SnapItems(remote[selectedCollection])

\* the step is a drop that reorders the Local View
DropReorders == todos' # todos /\ \E t \in IdsOf(todos) : ReorderingDrop(t)

\* the step ends a drag
DragEnds == draggingId # NoId /\ onDragEndCard

\* C31: a drop reorders only while a drag is in progress. A drop that has
\* reordered and a drag-end clear the dragging id, so that a drop onto any item
\* is ignored until the next drag start; a drop with no dragging id leaves the
\* Local View, the pending writes and the store as they were; an order batch is
\* issued only in a step that starts with a dragging id and ends without one.
C31_DropNeedsDragInProgress ==
  [][/\ (DropReorders \/ DragEnds) =>
          /\ draggingId' = NoId
          /\ \A t \in Ids : DropIgnored(todos', draggingId', t)
     /\ \A t \in Ids : (draggingId = NoId /\ onDropCard(t)) =>
          /\ todos' = todos
          /\ pending' = pending
          /\ remote' = remote
     /\ (Len(pending') > Len(pending) /\ LastWrite(pending').kind = "batch") =>
          /\ draggingId # NoId
          /\ draggingId' = NoId]_vars

\* a drop has just reordered the three items shown: its batch is in flight,
\* the store still has the old order, and no drag is in progress
C31_Witness ==
  /\ draggingId = NoId
  /\ filter = "all"
  /\ Len(todos) = HiddenDragItems
  /\ pending # <<>>
  /\ LastWrite(pending).kind = "batch"
  /\ IdSeq(LastWrite(pending).updates) = IdSeq(todos)
  /\ IdSeq(todos) # Query(remote[selectedCollection])
  /\ \A t \in Ids : DropIgnored(todos, draggingId, t)

====
